---- MODULE Spec2Model ----
(***************************************************************************)
(* One run of app.py (NP 4427 maturity self-assessment): load the          *)
(* checklist, check the required columns, coerce the weights, render the   *)
(* form, score the ratings, export the CSV.                                *)
(*                                                                         *)
(* Numbers.  A pandas/numpy float is a record [nan, v]: nan = TRUE is NaN, *)
(* otherwise the value is the integer v.  The weights of the model are     *)
(* integers, so every product and sum is exact in float64 as well.  A      *)
(* quotient (global level, mean) is kept as the pair [num, den] of the     *)
(* division the code performs, and compared by cross-multiplication.       *)
(*                                                                         *)
(* Rows.  The i-th row of the sheet has the code Codes[i]: st.select_slider*)
(* is keyed by "pillar::code", and a repeated key aborts the form, so only *)
(* tables with distinct keys ever reach the scoring step.  The two text    *)
(* columns "Requisito" and "Descricao" carry no data any computation reads;*)
(* they appear as column names only.                                       *)
(*                                                                         *)
(* Strings are ASCII: "Basico" is the label "Ba'sico" of the source, "-"   *)
(* its em-dash sentinel, and the column names drop their accents.          *)
(***************************************************************************)
EXTENDS Integers, Sequences, FiniteSets

VARIABLES pc, loaded, columns, df, miss, pillars, nome, submitted, respostas,
          df_calc, df_pilar, soma_pesos, divided, nivel_global, interp,
          k3, k4, export, csv

vars == << pc, loaded, columns, df, miss, pillars, nome, submitted, respostas,
           df_calc, df_pilar, soma_pesos, divided, nivel_global, interp,
           k3, k4, export, csv >>

(* ------------------------------ bounds -------------------------------- *)
MaxRows == 2

(* ---------------------------- input domains --------------------------- *)
Codes == << "A", "B", "C", "D" >>
PilarNaN == "<NaN>"
PillarNames == { "P1", "P2" }
PillarCells == PillarNames \cup { PilarNaN }
RawNumbers == { -40, 0, 40, 60 }
\* a cell of the "Peso (%)" column as read from the sheet
PesoCells ==
    [ kind : { "num" }, v : RawNumbers ]
        \cup { [ kind |-> "text", v |-> 0 ], [ kind |-> "empty", v |-> 0 ] }
\* what a row holds for a column the sheet does not have
PesoAbsent == [ kind |-> "absent", v |-> 0 ]
PilarAbsent == "<absent>"
Names == { "  ", "Ana" }
Timestamps == { "2024-05-01 10:00:00 UTC" }
ColPilar == "Pilar / Dimensao"
ColCodigo == "Codigo"
ColRequisito == "Requisito (NP 4427)"
ColDescricao == "Descricao / Pergunta de Avaliacao"
ColPeso == "Peso (%)"
ColExtra == "Notas"
AllColumns == { ColPilar, ColCodigo, ColRequisito, ColDescricao, ColPeso, ColExtra }

(* ------------------------------ floats -------------------------------- *)
NaN == [ nan |-> TRUE, v |-> 0 ]
Num(n) == [ nan |-> FALSE, v |-> n ]
Mul(a, b) == IF a.nan \/ b.nan THEN NaN ELSE Num(a.v * b.v)
GE(a, n) == ~a.nan /\ a.v >= n
LE(a, n) == ~a.nan /\ a.v <= n

\* a quotient num/den, den # 0; NaN when undefined
NaNQ == [ nan |-> TRUE, num |-> 0, den |-> 1 ]
Quot(n, d) == [ nan |-> FALSE, num |-> n, den |-> d ]
Sign(d) == IF d < 0 THEN -1 ELSE 1
\* x < a/b and x <= a/b for b > 0
QLess(x, a, b) == x.num * Sign(x.den) * b < a * x.den * Sign(x.den)
QLeq(x, a, b) == x.num * Sign(x.den) * b <= a * x.den * Sign(x.den)

(* ------------------------------ helpers ------------------------------- *)
interpret_levelNoTie(x) ==
    IF QLess(x, 2, 1) THEN "Inicial"
    ELSE IF QLess(x, 3, 1) THEN "Basico"
    ELSE IF QLess(x, 4, 1) THEN "Padronizado"
    ELSE IF QLess(x, 9, 2) THEN "Gerido"
    ELSE "Otimizado"

interpret_level(x) ==
    IF QLess(x, 2, 1) THEN "Inicial"
    ELSE IF QLess(x, 3, 1) THEN "Basico"
    ELSE IF QLess(x, 4, 1) THEN "Padronizado"
    ELSE IF QLeq(x, 9, 2) THEN "Gerido"
    ELSE "Otimizado"

required == << ColPilar, ColCodigo, ColRequisito, ColDescricao, ColPeso >>

RECURSIVE SeqFilter(_, _)
SeqFilter(s, keep) ==
    IF s = << >> THEN << >>
    ELSE IF Head(s) \in keep THEN << Head(s) >> \o SeqFilter(Tail(s), keep)
    ELSE SeqFilter(Tail(s), keep)

MissAll(cols) == required
Miss(cols) == SeqFilter(required, AllColumns \ cols)

\* pd.to_numeric(errors="coerce") then fillna(0.0), one cell
ToNumeric(c) == IF c.kind = "num" THEN Num(c.v) ELSE Num(0)

Range(s) == { s[i] : i \in DOMAIN s }

\* the tables a sheet can hold: the i-th row has the code Codes[i]
Tables ==
    UNION { [ 1..n -> [ Pilar : PillarCells \cup { PilarAbsent },
                        Peso : PesoCells \cup { PesoAbsent } ] ] : n \in 0..MaxRows }
WithCodes(t) ==
    [ i \in DOMAIN t |-> [ Pilar |-> t[i].Pilar, Codigo |-> Codes[i], Peso |-> t[i].Peso ] ]

\* df[col].dropna().unique(), as a set
PillarsOf(d) == { d[i].Pilar : i \in DOMAIN d } \ { PilarNaN }

\* the keys of the sliders the form renders
Keys(d) == { << d[i].Pilar, d[i].Codigo >> : i \in { j \in DOMAIN d : d[j].Pilar \in PillarsOf(d) } }

\* respostas.get(key, np.nan)
Get(r, key) == IF key \in DOMAIN r THEN Num(r[key]) ELSE NaN

RECURSIVE NanSum(_)
NanSum(s) ==
    IF s = << >> THEN 0
    ELSE (IF Head(s).nan THEN 0 ELSE Head(s).v) + NanSum(Tail(s))

RECURSIVE Count(_)
Count(s) ==
    IF s = << >> THEN 0
    ELSE (IF Head(s).nan THEN 0 ELSE 1) + Count(Tail(s))

Column(d, f) == [ i \in DOMAIN d |-> d[i][f] ]

RECURSIVE Select(_, _)
Select(d, p) ==
    IF d = << >> THEN << >>
    ELSE IF Head(d).Pilar = p THEN << Head(d) >> \o Select(Tail(d), p)
    ELSE Select(Tail(d), p)

SelectAny(d, p) == SeqFilter(d, { r \in Range(d) : r.Pilar # PilarNaN })

\* one group of df_calc.groupby(pillar, dropna=True).agg(...)
Agg(g) ==
    [ Media |-> IF Count(Column(g, "Nivel")) = 0 THEN NaNQ
                ELSE Quot(NanSum(Column(g, "Nivel")), Count(Column(g, "Nivel"))),
      Peso |-> NanSum(Column(g, "Peso")),
      Pontuacao |-> NanSum(Column(g, "Pontuacao")),
      Itens |-> Count(Column(g, "Nivel")) ]

GroupByAll(d) == [ p \in PillarsOf(d) |-> Agg(SelectAny(d, p)) ]
GroupBy(d) == [ p \in PillarsOf(d) |-> Agg(Select(d, p)) ]

SomaPesosRated(d) ==
    NanSum([ i \in DOMAIN d |-> IF d[i].Nivel.nan THEN NaN ELSE d[i].Peso ])
\* df_calc["Peso (%)"].sum()
SomaPesos(d) == NanSum(Column(d, "Peso"))

DividesAlways(s, d) == Len(d) > 0
\* the guard of the division at line 158: "if soma_pesos"
Divides(s, d) == s # 0

NivelGlobalOverRated(d, s) ==
    IF Divides(s, d) THEN Quot(NanSum(Column(d, "Pontuacao")), SomaPesosRated(d)) ELSE NaNQ
\* line 158
NivelGlobal(d, s) ==
    IF Divides(s, d) THEN Quot(NanSum(Column(d, "Pontuacao")), s) ELSE NaNQ

\* a fraction of rows; den = 0 is the NaN of an empty mean
\* (df_calc["Nivel"] >= 4).mean(): NaN >= 4 is False, the mean is over all rows
K3OverRated(d) ==
    [ num |-> Cardinality({ i \in DOMAIN d : GE(d[i].Nivel, 4) }),
      den |-> Count(Column(d, "Nivel")) ]
K3(d) ==
    [ num |-> Cardinality({ i \in DOMAIN d : GE(d[i].Nivel, 4) }),
      den |-> Len(d) ]
\* (df_calc["Nivel"] <= 2).mean()
K4(d) ==
    [ num |-> Cardinality({ i \in DOMAIN d : LE(d[i].Nivel, 2) }),
      den |-> Len(d) ]

Strip(s) == IF s = "  " THEN "" ELSE s

(* ------------------------------ export -------------------------------- *)
\* round(x, 2) in hundredths: nearest, an exact tie to the even neighbour
Round2(x) ==
    LET n == 100 * x.num * Sign(x.den)
        d == x.den * Sign(x.den)
        q == n \div d
        r == n - q * d
    IN  IF 2 * r < d THEN q
        ELSE IF 2 * r > d THEN q + 1
        ELSE IF q % 2 = 0 THEN q ELSE q + 1

\* a CSV field: empty, a text, or a decimal literal units / 10^decimals
EmptyField == [ form |-> "empty", text |-> "", units |-> 0, decimals |-> 0 ]
TextField(s) == [ form |-> "text", text |-> s, units |-> 0, decimals |-> 0 ]
NumberField(u, k) == [ form |-> "number", text |-> "", units |-> u, decimals |-> k ]

\* to_csv of a numeric column: NaN is the empty field, a float64 column prints
\* one decimal ("4.0"), an int64 column none ("4")
FormatNumberFillZero(x, isFloat) ==
    IF x.nan THEN NumberField(0, 1)
    ELSE IF isFloat THEN NumberField(10 * x.v, 1) ELSE NumberField(x.v, 0)
FormatNumber(x, isFloat) ==
    IF x.nan THEN EmptyField
    ELSE IF isFloat THEN NumberField(10 * x.v, 1) ELSE NumberField(x.v, 0)

\* to_csv of an object column: NaN is the empty field
FormatText(s) == IF s = PilarNaN THEN EmptyField ELSE TextField(s)

\* the "Nivel Global" column: round(nivel_global, 2), or "" when undefined
FormatLevel(l) == IF l.empty THEN EmptyField ELSE NumberField(l.h, 2)

\* the column is float64 as soon as it holds a NaN
HasNaN(s) == \E i \in DOMAIN s : s[i].nan

ExportLevel(x) == IF x.nan THEN [ empty |-> TRUE, h |-> 0 ]
                  ELSE [ empty |-> FALSE, h |-> Round2(x) ]

\* lines 222-231
ExportRows(d, n, x, label, ts) ==
    [ i \in DOMAIN d |->
        [ Nome |-> n, Pilar |-> d[i].Pilar, Codigo |-> d[i].Codigo,
          Nivel |-> d[i].Nivel, Peso |-> d[i].Peso, Pontuacao |-> d[i].Pontuacao,
          NivelGlobal |-> ExportLevel(x), Interp |-> label, Timestamp |-> ts ] ]

\* export.to_csv(index=False), one record of fields per row
ToCsv(e) ==
    [ i \in DOMAIN e |->
        [ Nome |-> TextField(e[i].Nome),
          Pilar |-> FormatText(e[i].Pilar),
          Codigo |-> TextField(e[i].Codigo),
          Nivel |-> FormatNumber(e[i].Nivel, HasNaN(Column(e, "Nivel"))),
          Peso |-> FormatNumber(e[i].Peso, TRUE),
          Pontuacao |-> FormatNumber(e[i].Pontuacao, TRUE),
          NivelGlobal |-> FormatLevel(e[i].NivelGlobal),
          Interp |-> TextField(e[i].Interp),
          Timestamp |-> TextField(e[i].Timestamp) ] ]

(* ------------------------------ state --------------------------------- *)
Init ==
    /\ pc = "start"
    /\ loaded = FALSE
    /\ columns = {}
    /\ df = << >>
    /\ miss = << >>
    /\ pillars = {}
    /\ nome = ""
    /\ submitted = FALSE
    /\ respostas = << >>
    /\ df_calc = << >>
    /\ df_pilar = << >>
    /\ soma_pesos = 0
    /\ divided = FALSE
    /\ nivel_global = NaNQ
    /\ interp = ""
    /\ k3 = [ num |-> 0, den |-> 0 ]
    /\ k4 = [ num |-> 0, den |-> 0 ]
    /\ export = << >>
    /\ csv = << >>

\* a row of a sheet with the columns cols holds no cell for an absent column
Conforms(t, cols) ==
    \A i \in DOMAIN t :
        /\ (t[i].Pilar = PilarAbsent) = (ColPilar \notin cols)
        /\ (t[i].Peso = PesoAbsent) = (ColPeso \notin cols)

\* lines 77-82: the sheet is read from the upload or the URL
LoadOk ==
    /\ pc = "start"
    /\ \E cols \in SUBSET AllColumns, t \in Tables :
          /\ Conforms(t, cols)
          /\ columns' = cols
          /\ df' = WithCodes(t)
    /\ loaded' = TRUE
    /\ pc' = "loaded"
    /\ UNCHANGED << miss, pillars, nome, submitted, respostas, df_calc,
                    df_pilar, soma_pesos, divided, nivel_global, interp, k3, k4,
                    export, csv >>

\* lines 83-89: the read raises (network, HTTP status, parse, sheet not found)
LoadFail ==
    /\ pc = "start"
    /\ pc' = "load_error"
    /\ UNCHANGED << loaded, columns, df, miss, pillars, nome, submitted, respostas,
                    df_calc, df_pilar, soma_pesos, divided, nivel_global, interp,
                    k3, k4, export, csv >>

\* lines 92-96
CheckSchema ==
    /\ pc = "loaded"
    /\ miss' = Miss(columns)
    /\ pc' = IF miss' # << >> THEN "schema_error" ELSE "schema_ok"
    /\ UNCHANGED << loaded, columns, df, pillars, nome, submitted, respostas,
                    df_calc, df_pilar, soma_pesos, divided, nivel_global, interp,
                    k3, k4, export, csv >>

\* lines 98-99
Normalize ==
    /\ pc = "schema_ok"
    /\ df' = [ i \in DOMAIN df |-> [ df[i] EXCEPT !.Peso = ToNumeric(df[i].Peso) ] ]
    /\ pillars' = PillarsOf(df)
    /\ pc' = "ready"
    /\ UNCHANGED << loaded, columns, miss, nome, submitted, respostas, df_calc, df_pilar,
                    soma_pesos, divided, nivel_global, interp, k3, k4, export, csv >>

\* lines 106-141: the name, one slider per row of a pillar (default 3), the button
FormNoGate ==
    /\ pc = "ready"
    /\ \E n \in Names, sub \in BOOLEAN, r \in [ Keys(df) -> 1..5 ] :
          /\ ~sub => r = [ k \in Keys(df) |-> 3 ]
          /\ nome' = n
          /\ submitted' = sub
          /\ respostas' = r
          /\ pc' = "submitted"
    /\ UNCHANGED << loaded, columns, df, miss, pillars, df_calc, df_pilar,
                    soma_pesos, divided, nivel_global, interp, k3, k4, export, csv >>

Form ==
    /\ pc = "ready"
    /\ \E n \in Names, sub \in BOOLEAN, r \in [ Keys(df) -> 1..5 ] :
          /\ ~sub => r = [ k \in Keys(df) |-> 3 ]
          /\ nome' = n
          /\ submitted' = sub
          /\ respostas' = r
          /\ pc' = IF sub THEN "submitted" ELSE "not_submitted"
    /\ UNCHANGED << loaded, columns, df, miss, pillars, df_calc, df_pilar,
                    soma_pesos, divided, nivel_global, interp, k3, k4, export, csv >>

\* lines 146-148
Calc(d, r) ==
    [ i \in DOMAIN d |->
        LET nivel == Get(r, << d[i].Pilar, d[i].Codigo >>)
        IN  [ Pilar |-> d[i].Pilar, Codigo |-> d[i].Codigo, Peso |-> d[i].Peso,
              Nivel |-> nivel, Pontuacao |-> Mul(nivel, d[i].Peso) ] ]

\* lines 146-168
Score ==
    /\ pc = "submitted"
    /\ df_calc' = Calc(df, respostas)
    /\ df_pilar' = GroupBy(df_calc')
    /\ soma_pesos' = SomaPesos(df_calc')
    /\ divided' = Divides(soma_pesos', df_calc')
    /\ nivel_global' = NivelGlobal(df_calc', soma_pesos')
    /\ interp' = IF ~nivel_global'.nan THEN interpret_level(nivel_global') ELSE "-"
    /\ k3' = K3(df_calc')
    /\ k4' = K4(df_calc')
    /\ pc' = "scored"
    /\ UNCHANGED << loaded, columns, df, miss, pillars, nome, submitted, respostas,
                    export, csv >>

\* lines 221-240
Export ==
    /\ pc = "scored"
    /\ IF Strip(nome) # ""
       THEN \E ts \in Timestamps :
               /\ export' = ExportRows(df_calc, nome, nivel_global, interp, ts)
               /\ csv' = ToCsv(export')
               /\ pc' = "exported"
       ELSE /\ pc' = "no_export"
            /\ UNCHANGED << export, csv >>
    /\ UNCHANGED << loaded, columns, df, miss, pillars, nome, submitted, respostas,
                    df_calc, df_pilar, soma_pesos, divided, nivel_global, interp,
                    k3, k4 >>

Next ==
    \/ LoadOk
    \/ LoadFail
    \/ CheckSchema
    \/ Normalize
    \/ Form
    \/ Score
    \/ Export

Spec == Init /\ [][Next]_vars

(* ------------------------------ claims -------------------------------- *)
Scored == pc \in { "scored", "exported", "no_export" }
Normalized == pc \in { "ready", "submitted", "not_submitted", "scored", "exported", "no_export" }
Rated(d) == { i \in DOMAIN d : ~d[i].Nivel.nan }
InPillar(d, p) == { i \in DOMAIN d : d[i].Pilar = p }

RECURSIVE SumWeights(_, _)
SumWeights(S, d) ==
    IF S = {} THEN 0
    ELSE LET i == CHOOSE j \in S : TRUE
         IN  d[i].Peso.v + SumWeights(S \ { i }, d)

RECURSIVE SumRatings(_, _)
SumRatings(S, d) ==
    IF S = {} THEN 0
    ELSE LET i == CHOOSE j \in S : TRUE
         IN  d[i].Nivel.v + SumRatings(S \ { i }, d)

RECURSIVE SumRatingTimesWeight(_, _)
SumRatingTimesWeight(S, d) ==
    IF S = {} THEN 0
    ELSE LET i == CHOOSE j \in S : TRUE
         IN  d[i].Nivel.v * d[i].Peso.v + SumRatingTimesWeight(S \ { i }, d)

ExampleTable ==
    /\ Len(df_calc) = 2
    /\ df_calc[1].Pilar = "P1" /\ df_calc[1].Peso = Num(60) /\ df_calc[1].Nivel = Num(4)
    /\ df_calc[2].Pilar = "P1" /\ df_calc[2].Peso = Num(40) /\ df_calc[2].Nivel = Num(2)

\* C1: whenever the sum of the weights of ALL rows is non-zero, the global level
\* is the sum of rating x weight over the rated rows divided by that sum; the
\* rows (P1,A,60,4), (P1,B,40,2) give 3.2, classified "Padronizado".
C1_GlobalWeightedLevel ==
    Scored =>
        LET W == SumWeights(DOMAIN df_calc, df_calc)
        IN  /\ W # 0 =>
                /\ ~nivel_global.nan
                /\ nivel_global.den # 0
                /\ nivel_global.num * W
                     = SumRatingTimesWeight(Rated(df_calc), df_calc) * nivel_global.den
            /\ ExampleTable =>
                /\ ~nivel_global.nan
                /\ 10 * nivel_global.num = 32 * nivel_global.den
                /\ interp = "Padronizado"

C1_Witness ==
    /\ pc = "scored"
    /\ ExampleTable
    /\ 10 * nivel_global.num = 32 * nivel_global.den
    /\ interp = "Padronizado"

\* C2: when no row has a defined rating, the global level is undefined and the
\* interpretation is the sentinel.
C2_NoRatingsUndefined ==
    (Scored /\ Rated(df_calc) = {}) => (nivel_global.nan /\ interp = "-")

\* C3: when the weights of all rows sum to zero the global level is undefined,
\* the division is not evaluated, and the interpretation is the sentinel.
C3_ZeroDenominator ==
    (Scored /\ SumWeights(DOMAIN df_calc, df_calc) = 0)
        => (nivel_global.nan /\ ~divided /\ interp = "-")

C3_Witness ==
    /\ pc = "scored"
    /\ Len(df_calc) = 1
    /\ df_calc[1].Peso = Num(0)
    /\ df_calc[1].Nivel = Num(5)
    /\ nivel_global.nan

\* C4: a defined level x gets exactly one of the five labels: "Inicial" iff
\* x < 2, "Basico" iff 2 <= x < 3, "Padronizado" iff 3 <= x < 4, "Gerido" iff
\* 4 <= x <= 4.5, "Otimizado" iff x > 4.5.
C4_InterpretLevelBands ==
    (Scored /\ ~nivel_global.nan) =>
        LET n == nivel_global.num * Sign(nivel_global.den)
            d == nivel_global.den * Sign(nivel_global.den)
        IN  /\ interp \in { "Inicial", "Basico", "Padronizado", "Gerido", "Otimizado" }
            /\ (interp = "Inicial") = (n < 2 * d)
            /\ (interp = "Basico") = (2 * d <= n /\ n < 3 * d)
            /\ (interp = "Padronizado") = (3 * d <= n /\ n < 4 * d)
            /\ (interp = "Gerido") = (4 * d <= n /\ 2 * n <= 9 * d)
            /\ (interp = "Otimizado") = (2 * n > 9 * d)

C4_Witness ==
    /\ pc = "scored"
    /\ ~nivel_global.nan
    /\ 2 * nivel_global.num = 9 * nivel_global.den
    /\ interp = "Gerido"

\* C5: after the load and the weight normalization every row's weight is a
\* number >= 0, whatever the "Peso (%)" cell held.
C5_WeightsNonNegative ==
    Normalized => \A i \in DOMAIN df : ~df[i].Peso.nan /\ df[i].Peso.v >= 0

\* C6: a schema error reports exactly the required columns the sheet lacks, it
\* is raised whenever one is lacking, and never when all five are present.
C6_SchemaErrorListsMissing ==
    LET req == Range(required)
    IN  /\ pc = "schema_error" =>
            /\ miss # << >>
            /\ Range(miss) = req \ columns
        /\ (pc \notin { "start", "load_error", "loaded" } /\ ~(req \subseteq columns))
              => pc = "schema_error"
        /\ (pc \notin { "start", "load_error", "loaded" } /\ req \subseteq columns)
              => (pc # "schema_error" /\ miss = << >>)

C6_Witness ==
    /\ pc = "schema_error"
    /\ ColExtra \in columns
    /\ ColPilar \in columns
    /\ Range(miss) = { ColCodigo, ColPeso }

\* C7: the scoring results and the export exist only in a run whose load
\* succeeded, whose sheet has every required column and whose form was
\* submitted; a run stopped by a load failure, a schema error or an unsubmitted
\* form has scored and exported nothing.
C7_ScoringOnlyAfterGates ==
    /\ Scored => (loaded /\ miss = << >> /\ Range(required) \subseteq columns /\ submitted)
    /\ (~loaded \/ miss # << >> \/ ~submitted) =>
          /\ ~Scored
          /\ df_calc = << >> /\ interp = "" /\ ~divided
          /\ export = << >> /\ csv = << >>
    /\ pc \in { "exported" } => Scored

C7_Witness ==
    /\ pc = "exported"
    /\ loaded /\ submitted /\ miss = << >>
    /\ Len(csv) = MaxRows

\* C8: for every pillar of the aggregates, the total weight is the sum of the
\* weights of exactly the rows of that pillar, rated or not, and the mean rating
\* is the mean over the rated rows of that pillar.
C8_PillarAggregates ==
    Scored =>
        /\ DOMAIN df_pilar = { df_calc[i].Pilar : i \in DOMAIN df_calc } \ { PilarNaN }
        /\ \A p \in DOMAIN df_pilar :
              LET rows == InPillar(df_calc, p)
                  rated == rows \cap Rated(df_calc)
              IN  /\ df_pilar[p].Peso = SumWeights(rows, df_calc)
                  /\ df_pilar[p].Media.nan = (rated = {})
                  /\ rated # {} =>
                        /\ df_pilar[p].Media.den # 0
                        /\ df_pilar[p].Media.num * Cardinality(rated)
                             = SumRatings(rated, df_calc) * df_pilar[p].Media.den

C8_Witness ==
    /\ pc = "scored"
    /\ DOMAIN df_pilar = { "P1", "P2" }
    /\ df_pilar["P1"].Peso = 60
    /\ df_pilar["P2"].Peso = 40
    /\ df_pilar["P1"].Media = Quot(5, 1)
    /\ df_pilar["P2"].Media = Quot(2, 1)

High(d) == { i \in Rated(d) : d[i].Nivel.v >= 4 }
Low(d) == { i \in Rated(d) : d[i].Nivel.v <= 2 }

\* C9 (as stated): the two metrics are the fractions of the RATED rows with a
\* rating >= 4 and <= 2: their denominator is the number of rated rows.
C9_FractionOfRatedRows ==
    Scored =>
        LET r == Cardinality(Rated(df_calc))
        IN  /\ (k3.den = 0) = (r = 0)
            /\ (k4.den = 0) = (r = 0)
            /\ k3.num * r = Cardinality(High(df_calc)) * k3.den
            /\ k4.num * r = Cardinality(Low(df_calc)) * k4.den

\* C9 (amended): the two metrics are the numbers of rows with a rating >= 4 and
\* <= 2 divided by the number of ALL rows, rated or not.
C9_FractionOfAllRows ==
    Scored =>
        LET n == Cardinality(DOMAIN df_calc)
        IN  /\ (k3.den = 0) = (n = 0)
            /\ (k4.den = 0) = (n = 0)
            /\ k3.num * n = Cardinality(High(df_calc)) * k3.den
            /\ k4.num * n = Cardinality(Low(df_calc)) * k4.den

C9_Witness ==
    /\ pc = "scored"
    /\ Len(df_calc) = 2
    /\ Cardinality(Rated(df_calc)) = 1
    /\ Cardinality(High(df_calc)) = 1
    /\ k3 = [ num |-> 1, den |-> 2 ]

\* Reading the CSV back, field by field, as a CSV reader does: an empty field of
\* a column is the missing value, a decimal literal is the number it denotes.
Pow10(k) == IF k = 0 THEN 1 ELSE IF k = 1 THEN 10 ELSE 100

ParseNumber(f) == IF f.form = "empty" THEN NaN ELSE Num(f.units \div Pow10(f.decimals))
ParseText(f) == IF f.form = "empty" THEN PilarNaN ELSE f.text
ParseLevel(f) == IF f.form = "empty" THEN [ empty |-> TRUE, h |-> 0 ]
                 ELSE [ empty |-> FALSE, h |-> f.units ]
ParseCsv(c) ==
    [ i \in DOMAIN c |->
        [ Pilar |-> ParseText(c[i].Pilar),
          Codigo |-> ParseText(c[i].Codigo),
          Nivel |-> ParseNumber(c[i].Nivel),
          Peso |-> ParseNumber(c[i].Peso),
          NivelGlobal |-> ParseLevel(c[i].NivelGlobal),
          Interp |-> ParseText(c[i].Interp),
          Timestamp |-> ParseText(c[i].Timestamp) ] ]

====
